---- MODULE Spec2Model ----
(***************************************************************************)
(* The retrying HTTP client apiClient (src/lib/apiClient.ts, kept in       *)
(* src/unnamed/part_004 lines 234-259) as a state machine run by the       *)
(* JavaScript event loop.                                                  *)
(*                                                                         *)
(* One call of the async function is in progress at a time; calls follow   *)
(* each other.  The function runs from one await to the next without       *)
(* interruption: the steps of the program (Invoke, ResumeFetch,            *)
(* ResumeJson) are the synchronous stretches of its body, and the steps of *)
(* the environment (FetchRespond, FetchFail, JsonSettle, TimerFire) are the *)
(* tasks the event loop runs between them.  A continuation whose awaited   *)
(* promise has settled is a microtask and runs before any further task.    *)
(*                                                                         *)
(* The hook useFetchData (part_004 lines 695-719) runs on top of it: an    *)
(* effect calls apiClient and its fetchData resumes when the call is       *)
(* complete.  The express app of server/index.ts is a separate machine: a  *)
(* request passes the layers of the app's stack in order.                  *)
(***************************************************************************)
EXTENDS Integers, Sequences, FiniteSets, TLC

\* ------------------------------------------------------------- bounds
\* Number of apiClient calls issued one after the other in a behaviour.
MaxCalls == 2

\* ------------------------------------------------- program constants
\* for (let attempt = 0; attempt < 3; attempt++)
MaxAttemptsTwo == 3 - 1
MaxAttemptsOff == 3 + 1
MaxAttempts == 3

\* z.string().min(1)
MinEndpointLen == 1

\* setTimeout(() => controller.abort(), 10000)
TimeoutMs == 10000

\* ------------------------------------------------------------ inputs
\* Endpoints the caller passes: the empty string and one path.
Endpoints == {"", "/path"}

\* vi.stubEnv('VITE_API_BASE_URL', 'http://local')
BaseUrl == "http://local"

\* Values import.meta.env.VITE_API_BASE_URL may hold: the configured
\* address, a text that is no address, and no value at all (<<>>).
EnvBases == {<<BaseUrl>>, <<"local">>, <<>>}

\* Response bodies the server may send: two JSON texts and one text that
\* is no JSON.
Bodies == {"{\"ok\":true}", "{\"done\":true}", "<html>"}

\* Status codes of a failure response.
ErrStatuses == {500}

\* What a fetch may resolve with.
Responses ==
    {[status |-> 200, body |-> b] : b \in Bodies}
        \cup {[status |-> s, body |-> ""] : s \in ErrStatuses}

\* ------------------------------------------------------------ errors
\* An error value: the class it is an instance of, the name property its
\* prototype chain gives it, and its message.
Err(class, name, message) ==
    [class |-> class, name |-> name, message |-> message]

\* class ApiError extends Error {}: the name is the inherited "Error".
ApiErr(message) == Err("ApiError", "Error", message)

\* What zod's parse throws for a string shorter than min(1).
ZodErr == Err("ZodError", "ZodError", "String must contain at least 1 character(s)")

\* What fetch rejects with on a transport failure.
TransportErr == Err("TypeError", "TypeError", "Failed to fetch")

\* What fetch rejects with when its target is no URL it can parse.
InvalidUrlErr == Err("TypeError", "TypeError", "Failed to parse URL")

\* What fetch (or a body read) rejects with when its signal is aborted.
AbortErr == Err("DOMException", "AbortError", "The operation was aborted.")

\* What res.json() rejects with for a body that is no JSON.
SyntaxErr == Err("SyntaxError", "SyntaxError", "Unexpected token < in JSON")

\* String(lastError): "null" for null, name: message for an error.
String(le) ==
    IF le = <<>> THEN "null" ELSE le[1].name \o ": " \o le[1].message

\* -------------------------------------------------------- pure parts
\* endpointSchema.parse(endpoint) succeeds.
EndpointOkOff(e) == TRUE
EndpointOk(e) == Len(e) >= MinEndpointLen

\* `${v}` for the value v of an environment entry: undefined is written
\* as the text "undefined".
Template(v) == IF v = <<>> THEN "undefined" ELSE v[1]

\* `${import.meta.env.VITE_API_BASE_URL}${path}`
UrlWithSlash(base, path) == Template(base) \o "/" \o path
Url(base, path) == Template(base) \o path

\* fetch can parse the target: it is an absolute URL.
UrlParsesAll(url) == TRUE
UrlParses(url) ==
    url \in {BaseUrl \o p : p \in {"/path", "/test", "/fail"}}

\* JSON.parse as res.json() applies it to a body text; <<>> when the text is
\* no JSON.
JsonParse(body) ==
    CASE body = "{\"ok\":true}" -> <<[ok |-> TRUE]>>
      [] body = "{\"done\":true}" -> <<[done |-> TRUE]>>
      [] OTHER -> <<>>

\* --------------------------------------------------------------- state
VARIABLES
    cur,        \* number of the call in focus (0: none made yet)
    endpoint,   \* its endpoint argument
    options,    \* its options argument: the state of options.signal
    pc,         \* where the call is: idle, awaitFetch, awaitJson, returned, thrown
    attempt,    \* the loop counter
    lastError,  \* <<>> for null, <<e>> for the error e
    fetches,    \* the fetch invocations of the call, in order
    timers,     \* every timer setTimeout made, with the call that made it
    timeout,    \* the call's timer handle: an index of timers (0: none)
    aborted,    \* controllers whose signal is aborted, by the call that made them
    retval,     \* <<v>> once the call returned v
    thrown,     \* <<e>> once the call threw e
    prev,       \* <<r>>: how the call that the one in focus followed ended
    parked,     \* <<c>>: a second call in progress, suspended at an await
    baseUrl,    \* import.meta.env.VITE_API_BASE_URL: <<>> for undefined
    \* useFetchData
    mounted,    \* the component that uses the hook is mounted
    hookProp,   \* the endpoint the hook was last rendered with
    data,       \* the data state: <<>> for null, <<v>> for v
    error,      \* the error state: <<>> for null, <<e>> for e
    effects,    \* effect runs since the component mounted
    live,       \* calls made by an effect whose isMounted is still true
    awaiting,   \* calls a fetchData awaits and has not resumed from
    \* server
    request,    \* <<r>>: the request the server app is handling
    layer,      \* the next layer of the app's stack to see it
    response    \* the response to it, as built so far

clientVars == <<cur, endpoint, options, pc, attempt, lastError, fetches,
                timers, timeout, aborted, retval, thrown, prev, parked,
                baseUrl>>

hookVars == <<mounted, hookProp, data, error, effects, live, awaiting>>

serverVars == <<request, layer, response>>

vars == <<clientVars, hookVars, serverVars>>

Done == {"returned", "thrown"}

\* The options a caller passes: without a signal, or with the signal of an
\* AbortController of its own.
OptionSets == {[signal |-> "none"], [signal |-> "live"]}

\* const controller = new AbortController(): each call makes its own.
ControllerShared(c) == 1
ControllerOf(c) == c

\* controller.signal of call c, and the signal in the options of call c.
ClientSignal(c) == [owner |-> "client", id |-> ControllerOf(c)]
CallerSignal(c) == [owner |-> "caller", id |-> c]

\* { ...options, signal: controller.signal }: the signal the request carries.
InitSignalFromOptions(opts, c) ==
    IF opts.signal # "none" THEN CallerSignal(c) ELSE ClientSignal(c)
InitSignal(opts, c) == ClientSignal(c)

\* signal.aborted
SignalAborted(sig, opts) ==
    IF sig.owner = "client" THEN sig.id \in aborted
    ELSE opts.signal = "aborted"

\* fetch(url, {...options, signal}): the promise it returns.  A target
\* that does not parse, or a signal that is already aborted, makes fetch
\* reject at once, without any request.
NewFetch(url, sig, sigAborted) ==
    [url |-> url,
     signal |-> sig,
     state |-> IF ~UrlParses(url) \/ sigAborted THEN "rejected" ELSE "pending",
     status |-> 0, body |-> "",
     err |-> IF ~UrlParses(url) THEN <<InvalidUrlErr>>
             ELSE IF sigAborted THEN <<AbortErr>> ELSE <<>>,
     json |-> "none"]

\* The fetches the first pass of the loop issues.
FirstFetches(url, sig, sigAborted) == <<NewFetch(url, sig, sigAborted)>>

\* await p: the continuation runs once p has settled.
SettledOff(st) == TRUE
Settled(st) == st # "pending"

\* res.ok
ResOkInverted(f) == f.state = "fulfilled" /\ f.status \notin 200..299
ResOk(f) == f.state = "fulfilled" /\ f.status \in 200..299

\* What the try block throws for a fetch that did not give an ok response:
\* the rejection of fetch, or new ApiError(`Status ${res.status}`).
ThrownBy(f) ==
    IF f.state = "rejected" THEN f.err[1]
    ELSE ApiErr("Status " \o ToString(f.status))

\* A continuation of the call in focus is ready to run (a microtask).
MicrotaskReady ==
    \/ pc = "awaitFetch" /\ Settled(fetches[Len(fetches)].state)
    \/ pc = "awaitJson" /\ Settled(fetches[Len(fetches)].json)

\* A continuation of the parked call is ready to run.
ParkedReady ==
    /\ parked # <<>>
    /\ \/ /\ parked[1].pc = "awaitFetch"
          /\ Settled(parked[1].fetches[Len(parked[1].fetches)].state)
       \/ /\ parked[1].pc = "awaitJson"
          /\ Settled(parked[1].fetches[Len(parked[1].fetches)].json)

\* A fetchData that awaits a call that is complete is ready to run.
DeliveryReady == pc \in Done /\ cur \in awaiting

\* No microtask is left: the event loop takes its next task.
TaskTurnAlways == TRUE
TaskTurn == ~MicrotaskReady /\ ~ParkedReady /\ ~DeliveryReady

\* The abort of a signal, on a fetch that carries it: a pending fetch
\* rejects, a pending body read rejects.
AbortFetchIgnored(f) == f
AbortFetch(f) ==
    IF f.state = "pending"
      THEN [f EXCEPT !.state = "rejected", !.err = <<AbortErr>>]
    ELSE IF f.json = "pending"
      THEN [f EXCEPT !.json = "rejected", !.err = <<AbortErr>>]
    ELSE f

\* The abort of signal sig, on the fetches fs.
AbortBy(fs, sig) ==
    [i \in DOMAIN fs |->
        IF fs[i].signal = sig THEN AbortFetch(fs[i]) ELSE fs[i]]

\* clearTimeout(timeout)
ClearTimeout(ts, h) ==
    IF h \in DOMAIN ts /\ ts[h].state = "armed"
      THEN [ts EXCEPT ![h].state = "cleared"]
      ELSE ts

\* setTimeout(() => controller.abort(), 10000) by call c.
SetTimeout(ts, c) == Append(ts, [call |-> c, state |-> "armed", ms |-> TimeoutMs])

\* The response of the server before anything is written to it.
NoResponse ==
    [headers |-> [csp |-> <<>>, contentType |-> ""],
     status |-> 0, body |-> "", sent |-> FALSE]

\* The state of the call in focus, as one value.
Focused ==
    [cur |-> cur, endpoint |-> endpoint, options |-> options, pc |-> pc,
     attempt |-> attempt, lastError |-> lastError, fetches |-> fetches,
     timeout |-> timeout, retval |-> retval, thrown |-> thrown]

\* The number the next call gets.
NextCall ==
    1 + (IF parked # <<>> /\ parked[1].cur > cur THEN parked[1].cur ELSE cur)

\* How a complete call ended: what the next call could inherit from it.
Outcome ==
    [endpoint |-> endpoint, pc |-> pc, attempt |-> attempt,
     retval |-> retval, thrown |-> thrown,
     body |-> IF fetches = <<>> THEN "" ELSE fetches[Len(fetches)].body]

Init ==
    /\ cur = 0
    /\ endpoint = ""
    /\ options = [signal |-> "none"]
    /\ pc = "idle"
    /\ attempt = 0
    /\ lastError = <<>>
    /\ fetches = <<>>
    /\ timers = <<>>
    /\ timeout = 0
    /\ aborted = {}
    /\ retval = <<>>
    /\ thrown = <<>>
    /\ prev = <<>>
    /\ parked = <<>>
    /\ baseUrl = <<BaseUrl>>
    /\ mounted = FALSE
    /\ hookProp = ""
    /\ data = <<>>
    /\ error = <<>>
    /\ effects = 0
    /\ live = {}
    /\ awaiting = {}
    /\ request = <<>>
    /\ layer = 0
    /\ response = NoResponse

\* throw new ApiError(String(lastError))
ExhaustedErrorRaw(le) == le[1]
ExhaustedError(le) == ApiErr(String(le))

\* lastError = err
RecordErrorFirst(le, err) == IF le = <<>> THEN <<err>> ELSE le
RecordError(le, err) == <<err>>

\* catch (err) { lastError = err }, attempt++, and either the next pass of
\* the loop up to its await, or throw new ApiError(String(lastError)).
Catch(err, fs) ==
    /\ lastError' = RecordError(lastError, err)
    /\ attempt' = attempt + 1
    /\ retval' = retval
    /\ IF attempt + 1 < MaxAttempts
         THEN /\ fetches' = Append(fs,
                    NewFetch(Url(baseUrl, endpoint),
                             InitSignal(options, cur),
                             SignalAborted(InitSignal(options, cur), options)))
              /\ pc' = "awaitFetch"
              /\ thrown' = thrown
         ELSE /\ fetches' = fs
              /\ pc' = "thrown"
              /\ thrown' = <<ExhaustedError(RecordError(lastError, err))>>

\* let lastError: unknown = null; let attempt = 0: locals of each call.
FreshAttemptKept(a) == a
FreshAttempt(a) == 0

\* The timers when endpointSchema.parse throws: the throw comes before
\* setTimeout is reached.
TimersArmedFirst(ts, c) == SetTimeout(ts, c)
TimersOnReject(ts, c) == ts

\* The body of apiClient(e, o) from its entry to its first await, as call
\* number c.
Begin(c, e, o) ==
    /\ cur' = c
    /\ endpoint' = e
    /\ options' = o
    /\ attempt' = FreshAttempt(attempt)
    /\ lastError' = <<>>
    /\ retval' = <<>>
    /\ aborted' = aborted
    /\ IF EndpointOk(e)
         THEN /\ timers' = SetTimeout(timers, c)
              /\ timeout' = Len(timers) + 1
              /\ fetches' = FirstFetches(Url(baseUrl, e), InitSignal(o, c),
                                SignalAborted(InitSignal(o, c), o))
              /\ pc' = "awaitFetch"
              /\ thrown' = <<>>
         ELSE /\ timers' = TimersOnReject(timers, c)
              /\ timeout' = 0
              /\ fetches' = <<>>
              /\ pc' = "thrown"
              /\ thrown' = <<ZodErr>>

\* apiClient(e, o) is called when no call is in progress in focus: the body
\* runs up to its first await.
Invoke(e, o) ==
    /\ pc \in {"idle"} \cup Done
    /\ TaskTurn
    /\ NextCall <= MaxCalls
    /\ Begin(NextCall, e, o)
    /\ prev' = IF pc \in Done THEN <<Outcome>> ELSE prev
    /\ parked' = parked
    /\ UNCHANGED <<baseUrl, hookVars, serverVars>>

\* apiClient(e, o) is called while the call in focus is suspended at an
\* await: that call stays in progress beside the new one.
InvokeConcurrent(e, o) ==
    /\ pc \in {"awaitFetch", "awaitJson"}
    /\ TaskTurn
    /\ parked = <<>>
    /\ NextCall <= MaxCalls
    /\ Begin(NextCall, e, o)
    /\ parked' = <<Focused>>
    /\ prev' = prev
    /\ UNCHANGED <<baseUrl, hookVars, serverVars>>

\* The event loop turns to the other call in progress.
Switch ==
    /\ parked # <<>>
    /\ ~MicrotaskReady
    /\ ~DeliveryReady
    /\ parked' = <<Focused>>
    /\ cur' = parked[1].cur
    /\ endpoint' = parked[1].endpoint
    /\ options' = parked[1].options
    /\ pc' = parked[1].pc
    /\ attempt' = parked[1].attempt
    /\ lastError' = parked[1].lastError
    /\ fetches' = parked[1].fetches
    /\ timeout' = parked[1].timeout
    /\ retval' = parked[1].retval
    /\ thrown' = parked[1].thrown
    /\ UNCHANGED <<timers, aborted, prev,
                   baseUrl, hookVars, serverVars>>

\* The network answers the pending fetch i with response r.
FetchRespond(i, r) ==
    /\ TaskTurn
    /\ fetches[i].state = "pending"
    /\ fetches' = [fetches EXCEPT ![i].state = "fulfilled",
                                  ![i].status = r.status,
                                  ![i].body = r.body]
    /\ UNCHANGED <<cur, endpoint, options, pc, attempt, lastError, timers,
                   timeout, aborted, retval, thrown, prev, parked,
                   baseUrl, hookVars, serverVars>>

\* The pending fetch i fails in transport.
FetchFail(i) ==
    /\ TaskTurn
    /\ fetches[i].state = "pending"
    /\ fetches' = [fetches EXCEPT ![i].state = "rejected",
                                  ![i].err = <<TransportErr>>]
    /\ UNCHANGED <<cur, endpoint, options, pc, attempt, lastError, timers,
                   timeout, aborted, retval, thrown, prev, parked,
                   baseUrl, hookVars, serverVars>>

\* Timer t fires: () => controller.abort() of the call that armed it.
TimerFire(t) ==
    /\ TaskTurn
    /\ timers[t].state = "armed"
    /\ timers' = [timers EXCEPT ![t].state = "fired"]
    /\ aborted' = aborted \cup {ControllerOf(timers[t].call)}
    /\ fetches' = AbortBy(fetches, ClientSignal(timers[t].call))
    /\ parked' = IF parked = <<>> THEN parked
                 ELSE <<[parked[1] EXCEPT !.fetches =
                            AbortBy(@, ClientSignal(timers[t].call))]>>
    /\ UNCHANGED <<cur, endpoint, options, pc, attempt, lastError, timeout,
                   retval, thrown, prev,
                   baseUrl, hookVars, serverVars>>

\* The caller aborts the signal it passed in the options of the call.
CallerAbort ==
    /\ TaskTurn
    /\ pc # "idle"
    /\ options.signal = "live"
    /\ options' = [options EXCEPT !.signal = "aborted"]
    /\ fetches' = AbortBy(fetches, CallerSignal(cur))
    /\ UNCHANGED <<cur, endpoint, pc, attempt, lastError, timers, timeout,
                   aborted, retval, thrown, prev, parked,
                   baseUrl, hookVars, serverVars>>

\* The continuation of `await fetch(...)`: clearTimeout and the status
\* check when fetch fulfilled, the catch block when it rejected.
ResumeFetch ==
    /\ pc = "awaitFetch"
    /\ Settled(fetches[Len(fetches)].state)
    /\ LET n == Len(fetches)
           f == fetches[n]
       IN  /\ timers' = IF f.state = "rejected" THEN timers
                        ELSE ClearTimeout(timers, timeout)
           /\ IF ResOk(f)
                THEN /\ fetches' = [fetches EXCEPT ![n].json = "pending"]
                     /\ pc' = "awaitJson"
                     /\ UNCHANGED <<attempt, lastError, retval, thrown>>
                ELSE Catch(ThrownBy(f), fetches)
    /\ UNCHANGED <<cur, endpoint, options, timeout, aborted, prev, parked,
                   baseUrl, hookVars, serverVars>>

\* The body of response i has been read: res.json() settles.
JsonSettle(i) ==
    /\ TaskTurn
    /\ fetches[i].json = "pending"
    /\ fetches' = IF JsonParse(fetches[i].body) # <<>>
                    THEN [fetches EXCEPT ![i].json = "fulfilled"]
                    ELSE [fetches EXCEPT ![i].json = "rejected",
                                         ![i].err = <<SyntaxErr>>]
    /\ UNCHANGED <<cur, endpoint, options, pc, attempt, lastError, timers,
                   timeout, aborted, retval, thrown, prev, parked,
                   baseUrl, hookVars, serverVars>>

\* return await res.json(): the value the call resolves with.
ReturnValueMissing(f) == <<>>
ReturnValue(f) == JsonParse(f.body)

\* The continuation of `return await res.json()`.
ResumeJson ==
    /\ pc = "awaitJson"
    /\ Settled(fetches[Len(fetches)].json)
    /\ LET f == fetches[Len(fetches)]
       IN  IF f.json = "fulfilled"
             THEN /\ pc' = "returned"
                  /\ retval' = ReturnValue(f)
                  /\ UNCHANGED <<attempt, lastError, fetches, thrown>>
             ELSE Catch(f.err[1], fetches)
    /\ UNCHANGED <<cur, endpoint, options, timers, timeout, aborted, prev,
                   parked,
                   baseUrl, hookVars, serverVars>>

\* Calls made one after the other.
Next ==
    \/ \E e \in Endpoints, o \in OptionSets : Invoke(e, o)
    \/ \E i \in DOMAIN fetches, r \in Responses : FetchRespond(i, r)
    \/ \E i \in DOMAIN fetches : FetchFail(i)
    \/ \E t \in DOMAIN timers : TimerFire(t)
    \/ CallerAbort
    \/ ResumeFetch
    \/ \E i \in DOMAIN fetches : JsonSettle(i)
    \/ ResumeJson

Spec == Init /\ [][Next]_vars

\* The configured base address is changed (vi.stubEnv, or an assignment
\* to the environment entry).
SetBaseUrl(b) ==
    /\ TaskTurn
    /\ b # baseUrl
    /\ baseUrl' = b
    /\ UNCHANGED <<cur, endpoint, options, pc, attempt, lastError, fetches,
                   timers, timeout, aborted, retval, thrown, prev, parked,
                   hookVars, serverVars>>

\* Calls made one after the other while the configuration may change.
NextEnv ==
    \/ \E e \in Endpoints : Invoke(e, [signal |-> "none"])
    \/ \E b \in EnvBases : SetBaseUrl(b)
    \/ \E i \in DOMAIN fetches, r \in Responses : FetchRespond(i, r)
    \/ \E i \in DOMAIN fetches : FetchFail(i)
    \/ \E t \in DOMAIN timers : TimerFire(t)
    \/ ResumeFetch
    \/ \E i \in DOMAIN fetches : JsonSettle(i)
    \/ ResumeJson

SpecEnv == Init /\ [][NextEnv]_vars

\* The same calls under the scheduling the event loop gives: a continuation
\* whose promise has settled runs, a body read of a response that arrived
\* ends, and a timer that stays armed fires.  Nothing makes the server
\* answer or the transport fail: a fetch may stay pending.
SpecFair ==
    /\ Init
    /\ [][Next]_vars
    /\ WF_vars(ResumeFetch)
    /\ WF_vars(ResumeJson)
    /\ WF_vars(\E i \in DOMAIN fetches : JsonSettle(i))
    /\ WF_vars(\E t \in DOMAIN timers : TimerFire(t))

\* Calls that may overlap: a second call may start while the first is
\* suspended, and the event loop serves both.  The calls pass no options.
NextConcurrent ==
    \/ \E e \in Endpoints : Invoke(e, [signal |-> "none"])
    \/ \E e \in Endpoints : InvokeConcurrent(e, [signal |-> "none"])
    \/ Switch
    \/ \E i \in DOMAIN fetches, r \in Responses : FetchRespond(i, r)
    \/ \E i \in DOMAIN fetches : FetchFail(i)
    \/ \E t \in DOMAIN timers : TimerFire(t)
    \/ ResumeFetch
    \/ \E i \in DOMAIN fetches : JsonSettle(i)
    \/ ResumeJson

SpecConcurrent == Init /\ [][NextConcurrent]_vars

\* ------------------------------------------------------- useFetchData

\* The endpoints the hook is rendered with.
HookEndpoints == {"/test", "/fail"}

\* What the fetch of a call made by the hook may resolve with: a JSON
\* body, a body that is no JSON, a failure status.
HookResponses ==
    {r \in Responses : r.body \in {"{\"ok\":true}", "<html>", ""}}

\* useState(null)
NullState == <<>>

\* The effect of a render with endpoint e: isMounted = true, and fetchData()
\* runs up to its await of apiClient(e), which itself runs up to its first
\* await.  A call still in progress stays in progress beside the new one.
RunEffect(e) ==
    /\ TaskTurn
    /\ NextCall <= MaxCalls
    /\ pc \in {"awaitFetch", "awaitJson"} => parked = <<>>
    /\ Begin(NextCall, e, [signal |-> "none"])
    /\ parked' = IF pc \in {"awaitFetch", "awaitJson"}
                   THEN <<Focused>> ELSE parked
    /\ prev' = prev
    /\ awaiting' = awaiting \cup {NextCall}
    /\ live' = {NextCall}
    /\ hookProp' = e

\* A component that uses the hook mounts with endpoint e: both states
\* start as null and the effect runs.
Mount(e) ==
    /\ ~mounted
    /\ mounted' = TRUE
    /\ data' = NullState
    /\ error' = NullState
    /\ effects' = 1
    /\ RunEffect(e)
    /\ UNCHANGED <<baseUrl, serverVars>>

\* The component renders with another endpoint: the cleanup of the last
\* effect sets its isMounted to false, and the effect runs again.
Rerender(e) ==
    /\ mounted
    /\ e # hookProp
    /\ effects' = effects + 1
    /\ RunEffect(e)
    /\ UNCHANGED <<mounted, data, error, baseUrl, serverVars>>

\* The component unmounts: the cleanup of the last effect runs.
Unmount ==
    /\ mounted
    /\ TaskTurn
    /\ mounted' = FALSE
    /\ live' = {}
    /\ UNCHANGED <<clientVars, hookProp, data, error, effects, awaiting,
                   serverVars>>

\* if (isMounted) setData(result), dropped
SetDataDropped(d, result) == d

\* if (isMounted) setData(result)
SetData(d, result) == result

\* if (isMounted) setError(err as Error), dropped
SetErrorDropped(er, err) == er

\* if (isMounted) setError(err as Error)
SetError(er, err) == err

\* isMounted of the effect that made call c
IsMountedAlways(c) == TRUE
IsMounted(c) == c \in live

\* fetchData resumes from its await of the call in focus: the result goes
\* to data or the error to error, unless isMounted is false by then.
Deliver ==
    /\ DeliveryReady
    /\ awaiting' = awaiting \ {cur}
    /\ data' = IF IsMounted(cur) /\ pc = "returned"
                 THEN SetData(data, retval) ELSE data
    /\ error' = IF IsMounted(cur) /\ pc = "thrown"
                  THEN SetError(error, thrown) ELSE error
    /\ UNCHANGED <<clientVars, mounted, hookProp, effects, live, serverVars>>

NextHook ==
    \/ \E e \in HookEndpoints : Mount(e)
    \/ \E e \in HookEndpoints : Rerender(e)
    \/ Unmount
    \/ Deliver
    \/ Switch
    \/ \E i \in DOMAIN fetches, r \in HookResponses : FetchRespond(i, r)
    \/ \E i \in DOMAIN fetches : FetchFail(i)
    \/ \E t \in DOMAIN timers : TimerFire(t)
    \/ ResumeFetch
    \/ \E i \in DOMAIN fetches : JsonSettle(i)
    \/ ResumeJson

\* The microtask queue is drained before the event loop goes on, so a
\* fetchData whose call is complete does resume.
SpecHook == Init /\ [][NextHook]_vars /\ WF_vars(Deliver)

\* ------------------------------------------------------------- server

\* directives of helmet's contentSecurityPolicy in createSecurityMiddleware
Directives ==
    << [key |-> "defaultSrc", values |-> <<"'self'">>],
       [key |-> "scriptSrc",
        values |-> <<"'self'", "'unsafe-inline'", "'unsafe-eval'",
                     "https://cdn.jsdelivr.net">>],
       [key |-> "styleSrc",
        values |-> <<"'self'", "'unsafe-inline'",
                     "https://fonts.googleapis.com">>],
       [key |-> "fontSrc",
        values |-> <<"'self'", "https://fonts.gstatic.com">>],
       [key |-> "imgSrc", values |-> <<"'self'", "data:", "https:">>],
       [key |-> "connectSrc",
        values |-> <<"'self'", "https://api.artofficial-intelligence.com">>] >>

\* helmet writes a directive key in camel case as a dashed name.
Dashify(key) ==
    CASE key = "defaultSrc" -> "default-src"
      [] key = "scriptSrc" -> "script-src"
      [] key = "styleSrc" -> "style-src"
      [] key = "fontSrc" -> "font-src"
      [] key = "imgSrc" -> "img-src"
      [] key = "connectSrc" -> "connect-src"

\* The value of the Content-Security-Policy header helmet sets: the
\* directives in order, each a name followed by its values.
CspOfHelmet ==
    [i \in DOMAIN Directives |->
        [name |-> Dashify(Directives[i].key), values |-> Directives[i].values]]

\* The value express's final handler sets on the responses it writes.
CspOfFinalHandler == << [name |-> "default-src", values |-> <<"'none'">>] >>

\* The layers apps are built from.
SecurityLayer ==
    [kind |-> "security", method |-> "", path |-> "", send |-> "", type |-> ""]
JsonLayer ==
    [kind |-> "json", method |-> "", path |-> "", send |-> "", type |-> ""]
HealthRoute ==
    [kind |-> "route", method |-> "GET", path |-> "/health",
     send |-> "{\"status\":\"ok\"}", type |-> "application/json"]
RootRoute ==
    [kind |-> "route", method |-> "GET", path |-> "/",
     send |-> "ok", type |-> "text/html"]

\* The app of server/index.ts: the module exports startServer only.
IndexApp ==
    [exports |-> {"startServer"}, stack |-> <<JsonLayer, HealthRoute>>]

\* The app of the other text of server/index.ts, which mounts the security
\* middleware first and exports the app.
SecuredApp ==
    [exports |-> {"startServer", "app"},
     stack |-> <<SecurityLayer, JsonLayer, HealthRoute>>]

\* The app the test of createSecurityMiddleware builds.
TestApp == [exports |-> {}, stack |-> <<SecurityLayer, RootRoute>>]

Apps == {IndexApp, SecuredApp, TestApp}

Methods == {"GET", "POST"}

Paths == {"/health", "/", "/other"}

\* A request carries no body, a JSON body, or a body that is no JSON.
ReqBodies == {"none", "json", "bad"}

\* An app receives a request once the last one is answered.
Receive(a, m, p, b) ==
    /\ request = <<>> \/ response.sent
    /\ request' = <<[app |-> a, method |-> m, path |-> p, body |-> b]>>
    /\ layer' = 1
    /\ response' = NoResponse
    /\ UNCHANGED <<clientVars, hookVars>>

\* The layer the request has reached.
AtLayer(kind) ==
    /\ request # <<>>
    /\ ~response.sent
    /\ layer \in DOMAIN request[1].app.stack
    /\ request[1].app.stack[layer].kind = kind

\* The router createSecurityMiddleware returns: helmet sets the header and
\* calls next().
RunSecurity ==
    /\ AtLayer("security")
    /\ response' = [response EXCEPT !.headers.csp = <<CspOfHelmet>>]
    /\ layer' = layer + 1
    /\ UNCHANGED <<request, clientVars, hookVars>>

\* express.json(): a body that does not parse ends the request with the
\* final handler's 400; anything else goes on to the next layer.
RunJson ==
    /\ AtLayer("json")
    /\ IF request[1].body = "bad"
         THEN /\ response' = [headers |-> [csp |-> <<CspOfFinalHandler>>,
                                            contentType |-> "text/html"],
                              status |-> 400, body |-> "", sent |-> TRUE]
              /\ layer' = layer
         ELSE /\ response' = response
              /\ layer' = layer + 1
    /\ UNCHANGED <<request, clientVars, hookVars>>

\* A route: its handler answers a request of its method and path, and any
\* other request goes on to the next layer.
RunRoute ==
    /\ AtLayer("route")
    /\ LET r == request[1].app.stack[layer]
       IN  IF r.method = request[1].method /\ r.path = request[1].path
             THEN /\ response' =
                        [response EXCEPT
                            !.status = 200,
                            !.body = r.send,
                            !.headers.contentType = r.type,
                            !.sent = TRUE]
                  /\ layer' = layer
             ELSE /\ response' = response
                  /\ layer' = layer + 1
    /\ UNCHANGED <<request, clientVars, hookVars>>

\* No layer answered: express's final handler writes the 404.
NotFound ==
    /\ request # <<>>
    /\ ~response.sent
    /\ layer > Len(request[1].app.stack)
    /\ response' = [headers |-> [csp |-> <<CspOfFinalHandler>>,
                                 contentType |-> "text/html"],
                    status |-> 404, body |-> "", sent |-> TRUE]
    /\ UNCHANGED <<request, layer, clientVars, hookVars>>

NextServer ==
    \/ \E a \in Apps, m \in Methods, p \in Paths, b \in ReqBodies :
            Receive(a, m, p, b)
    \/ RunSecurity
    \/ RunJson
    \/ RunRoute
    \/ NotFound

SpecServer == Init /\ [][NextServer]_vars

\* ------------------------------------------------------------- claims
\* An attempt has failed: its fetch rejected, it answered with a status
\* that is not ok, or its body could not be read as JSON.
Failed(f) ==
    \/ f.state = "rejected"
    \/ f.state = "fulfilled" /\ f.status \notin 200..299
    \/ f.json = "rejected"

\* An attempt has failed by a transport exception or a non-success status.
FailedTS(f) ==
    \/ f.state = "rejected" /\ f.err = <<TransportErr>>
    \/ f.state = "fulfilled" /\ f.status \notin 200..299

\* An attempt has succeeded: an ok response whose body parsed.
Succeeded(f) == f.state = "fulfilled" /\ f.status \in 200..299 /\ f.json = "fulfilled"

\* A fetch is in flight: the request, or the read of its body.
InFlight(f) == f.state = "pending" \/ f.json = "pending"

\* C1: a call whose endpoint is the empty string fails at validation: in
\* every state of that call it has thrown, fetch was invoked zero times and
\* no attempt was counted.
C1_EmptyEndpointFails ==
    (cur > 0 /\ endpoint = "") =>
        /\ pc = "thrown"
        /\ thrown # <<>>
        /\ fetches = <<>>
        /\ attempt = 0

C1_Witness == cur > 0 /\ endpoint = "" /\ pc = "thrown" /\ fetches = <<>>

\* C2 (as stated): when the first fetch resolves with a success status, fetch
\* is invoked exactly once and the call returns that response's parsed body.
C2_FirstOkReturns ==
    (Len(fetches) >= 1 /\ fetches[1].state = "fulfilled"
        /\ fetches[1].status \in 200..299) =>
        /\ Len(fetches) = 1
        /\ pc \in Done => (pc = "returned" /\ retval # <<>>
                            /\ retval = JsonParse(fetches[1].body))

\* C2 (amended): when the first fetch resolves with a success status and a
\* body that parses as JSON, fetch is invoked exactly once and the call
\* returns that response's parsed body.
C2_FirstOkParsedReturns ==
    (Len(fetches) >= 1 /\ fetches[1].state = "fulfilled"
        /\ fetches[1].status \in 200..299
        /\ JsonParse(fetches[1].body) # <<>>) =>
        /\ Len(fetches) = 1
        /\ pc \in {"awaitFetch", "awaitJson", "returned"}
        /\ pc = "returned" => (retval # <<>>
                                /\ retval = JsonParse(fetches[1].body))

C2_Witness ==
    /\ pc = "returned"
    /\ Len(fetches) = 1
    /\ retval = <<[ok |-> TRUE]>>

\* C3: when the first two attempts fail by transport exception or
\* non-success status, a third attempt is issued and no fourth; when that
\* third attempt succeeds the call returns its parsed body; and every
\* fetch but the last one issued has finished.
C3_TwoFailuresThenSuccess ==
    /\ (Len(fetches) >= 2 /\ FailedTS(fetches[1]) /\ FailedTS(fetches[2])
          /\ attempt >= 2) => Len(fetches) = 3
    /\ (Len(fetches) >= 3 /\ FailedTS(fetches[1]) /\ FailedTS(fetches[2])
          /\ Succeeded(fetches[3])) =>
            /\ Len(fetches) = 3
            /\ attempt = 2
            /\ pc \in {"awaitJson", "returned"}
            /\ pc = "returned" => retval = JsonParse(fetches[3].body)
    /\ \A i \in 1..(Len(fetches) - 1) : ~InFlight(fetches[i])

C3_Witness ==
    /\ pc = "returned"
    /\ Len(fetches) = 3
    /\ fetches[1].err = <<TransportErr>>
    /\ fetches[2].status = 500
    /\ fetches[3].body = "{\"done\":true}"
    /\ retval = <<[done |-> TRUE]>>

\* C4: when all three attempts of a call with a non-empty endpoint have
\* failed the call has thrown an ApiError; and a call that passed validation
\* and has thrown made exactly three fetch invocations, all of them failed.
C4_ExhaustionThrowsApiError ==
    /\ (Len(fetches) = 3 /\ attempt = 3
          /\ \A i \in 1..3 : Failed(fetches[i])) =>
            (pc = "thrown" /\ thrown # <<>> /\ thrown[1].class = "ApiError")
    /\ (pc = "thrown" /\ endpoint # "") =>
            /\ Len(fetches) = 3
            /\ \A i \in 1..3 : Failed(fetches[i])
            /\ thrown # <<>> /\ thrown[1].class = "ApiError"

C4_Witness ==
    /\ pc = "thrown"
    /\ Len(fetches) = 3
    /\ fetches[1].err = <<TransportErr>>
    /\ fetches[2].err = <<AbortErr>>
    /\ fetches[3].err = <<AbortErr>>
    /\ thrown[1].class = "ApiError"

\* C5: every error a call throws, for an empty endpoint as after three
\* failed attempts, is an instance of ApiError.
C5_SameErrorKind ==
    pc = "thrown" => (thrown # <<>> /\ thrown[1].class = "ApiError")

\* The timers armed by call c.
TimersOf(c) == {t \in DOMAIN timers : timers[t].call = c}

\* C6: every call arms at most one timer, and once a call has completed, by
\* returning or by throwing, no timer it armed is still pending.
C6_TimerClearedOnExit ==
    /\ \A c \in 1..MaxCalls : Cardinality(TimersOf(c)) <= 1
    /\ pc \in Done => \A t \in TimersOf(cur) : timers[t].state # "armed"

\* The last fetch the call issued.
LastFetch == fetches[Len(fetches)]

\* C7: no fetch of a call stays pending once the call's signal is aborted; a
\* step in which the call's timer fires while its fetch is in flight rejects
\* that fetch with the abort error; and the step that resumes the call after
\* such a rejection records the abort as the last error and counts one
\* attempt, within the three.
C7_TimeoutAbortsAttempt ==
    /\ [](cur \in aborted =>
            \A i \in DOMAIN fetches : fetches[i].state # "pending")
    /\ [][(/\ pc = "awaitFetch"
           /\ LastFetch.state = "pending"
           /\ timers[timeout].state = "armed"
           /\ timers'[timeout].state = "fired")
          => (/\ pc' = "awaitFetch"
              /\ fetches'[Len(fetches)].state = "rejected"
              /\ fetches'[Len(fetches)].err = <<AbortErr>>)]_vars
    /\ [][(/\ pc = "awaitFetch"
           /\ LastFetch.state = "rejected"
           /\ LastFetch.err = <<AbortErr>>)
          => (/\ lastError' = <<AbortErr>>
              /\ attempt' = attempt + 1
              /\ attempt' <= 3
              /\ Len(fetches') <= 3)]_vars

C7_Witness ==
    /\ attempt = 1
    /\ lastError = <<AbortErr>>
    /\ timers[timeout].state = "fired"
    /\ fetches[1].err = <<AbortErr>>

\* C8: a retry issued after a rejected attempt is issued in flight, whether
\* the attempt was rejected by a transport exception or by the timeout: the
\* remaining attempts can then succeed or fail as the network decides.
C8_RetryAfterTimeoutLikeTransport ==
    [][(/\ cur' = cur
        /\ Len(fetches) >= 1
        /\ Len(fetches') = Len(fetches) + 1
        /\ LastFetch.state = "rejected")
       => fetches'[Len(fetches')].state = "pending"]_vars

\* C9: a call never makes more than three fetch invocations.
C9_AtMostThreeFetches == Len(fetches) <= 3 /\ attempt <= 3

C9_Witness == Len(fetches) = 3 /\ attempt = 3 /\ pc = "thrown"

\* C10: at most one fetch of the call is in flight, and every fetch but the
\* last one issued has completed with a failure.
C10_SequentialAttempts ==
    /\ Cardinality({i \in DOMAIN fetches : InFlight(fetches[i])}) <= 1
    /\ \A i \in 1..(Len(fetches) - 1) :
            ~InFlight(fetches[i]) /\ Failed(fetches[i])

C10_Witness ==
    /\ Len(fetches) = 3
    /\ fetches[3].state = "pending"
    /\ Failed(fetches[1]) /\ Failed(fetches[2])

\* C11 (as stated): at whichever attempt a fetch resolves with a success
\* status, no further attempt is issued and the call, once complete, has
\* returned that attempt's parsed body.
C11_FirstOkAttemptReturns ==
    \A i \in DOMAIN fetches :
        (fetches[i].state = "fulfilled" /\ fetches[i].status \in 200..299) =>
            /\ i = Len(fetches)
            /\ pc \in Done => (pc = "returned" /\ retval # <<>>
                                /\ retval = JsonParse(fetches[i].body))

\* C11 (amended): at whichever attempt (1, 2 or 3) a fetch resolves with a
\* success status and a body that parses as JSON, no further attempt is
\* issued, the call does not throw, and once it has returned it has
\* returned that attempt's parsed body.
C11_FirstOkParsedAttemptReturns ==
    \A i \in DOMAIN fetches :
        (fetches[i].state = "fulfilled" /\ fetches[i].status \in 200..299
            /\ JsonParse(fetches[i].body) # <<>>) =>
            /\ i = Len(fetches)
            /\ attempt = i - 1
            /\ pc \in {"awaitFetch", "awaitJson", "returned"}
            /\ pc = "returned" => (retval # <<>>
                                    /\ retval = JsonParse(fetches[i].body))

C11_Witness ==
    /\ pc = "returned"
    /\ Len(fetches) = 2
    /\ Failed(fetches[1])
    /\ retval = <<[done |-> TRUE]>>

\* The error an attempt failed with, read off its fetch: the rejection of
\* the fetch or of the body read, or the error made from the status.
FailureOf(f) ==
    IF f.state = "fulfilled" /\ f.status \notin 200..299
      THEN [class |-> "ApiError", name |-> "Error",
            message |-> "Status " \o ToString(f.status)]
      ELSE f.err[1]

\* C12: when a call that passed validation has thrown, the last recorded
\* error is the failure of the third attempt and the message of the error
\* thrown is the description of that failure.
C12_MessageEmbedsLastFailure ==
    (pc = "thrown" /\ fetches # <<>>) =>
        /\ Len(fetches) = 3
        /\ lastError = <<FailureOf(fetches[3])>>
        /\ thrown[1].message
             = FailureOf(fetches[3]).name \o ": " \o FailureOf(fetches[3]).message

C12_Witness ==
    /\ pc = "thrown"
    /\ Len(fetches) = 3
    /\ fetches[1].err = <<TransportErr>>
    /\ fetches[2].err = <<SyntaxErr>>
    /\ fetches[3].status = 500
    /\ thrown[1].message = "Error: Status 500"

\* C13: every fetch of a call requests the base address followed by the
\* endpoint path, with nothing between them: 'http://local/path' for the
\* path '/path'.
C13_TargetIsBasePlusPath ==
    \A i \in DOMAIN fetches :
        /\ fetches[i].url = BaseUrl \o endpoint
        /\ endpoint = "/path" => fetches[i].url = "http://local/path"

C13_Witness ==
    /\ Len(fetches) = 3
    /\ \A i \in 1..3 : fetches[i].url = "http://local/path"

\* C16: a complete call has exactly one outcome, a value returned (the
\* whole parsed body of its last response) or an error thrown, never both;
\* and the outcome of a complete call does not change afterwards.
C16_OneOutcome ==
    /\ [](/\ pc = "returned" =>
               (/\ retval # <<>> /\ thrown = <<>>
                /\ retval = JsonParse(LastFetch.body)
                /\ LastFetch.json = "fulfilled")
          /\ pc = "thrown" => (thrown # <<>> /\ retval = <<>>)
          /\ pc \notin Done => (retval = <<>> /\ thrown = <<>>))
    /\ [][(pc \in Done /\ cur' = cur) =>
            (pc' = pc /\ retval' = retval /\ thrown' = thrown)]_vars

C16_Witness == pc = "returned" /\ retval = <<[ok |-> TRUE]>> /\ attempt = 2

\* C15: every call starts with its attempt count at zero, no last error, no
\* result and, past validation, one pending fetch and a timer of its own,
\* armed in that step, on a controller that is not aborted, however the
\* call before it ended; a call that follows an exhausted call still throws
\* only after three fetches; and a call that returns after a call that
\* returned for the same endpoint and the same response body returns the
\* same value.
C15_StatelessAcrossCalls ==
    /\ [][cur' # cur =>
            /\ attempt' = 0
            /\ lastError' = <<>>
            /\ retval' = <<>>
            /\ endpoint' # "" =>
                 /\ Len(fetches') = 1
                 /\ fetches'[1].state = "pending"
                 /\ timeout' \notin DOMAIN timers
                 /\ timers'[timeout'].state = "armed"
                 /\ timers'[timeout'].call = cur'
                 /\ cur' \notin aborted']_vars
    /\ []((prev # <<>> /\ prev[1].pc = "thrown" /\ prev[1].attempt = 3) =>
            /\ attempt <= Len(fetches)
            /\ (pc = "thrown" /\ endpoint # "") =>
                    (attempt = 3 /\ Len(fetches) = 3))
    /\ []((prev # <<>> /\ prev[1].pc = "returned" /\ pc = "returned"
            /\ prev[1].endpoint = endpoint
            /\ prev[1].body = LastFetch.body) => retval = prev[1].retval)

C15_Witness ==
    /\ prev # <<>>
    /\ prev[1].pc = "thrown"
    /\ prev[1].attempt = 3
    /\ pc = "returned"
    /\ Len(fetches) = 3
    /\ attempt = 2

\* C17: every fetch of a call carries the signal of the call's own
\* controller, whatever signal the caller passed in the options; a step in
\* which the caller aborts its signal changes no fetch and not the position
\* of the call; and a fetch is rejected by an abort only when the call's own
\* timer has fired.
C17_CancellationInternalOnly ==
    /\ [](\A i \in DOMAIN fetches :
            /\ fetches[i].signal = [owner |-> "client", id |-> cur]
            /\ fetches[i].err = <<AbortErr>> =>
                 (cur \in aborted /\ timers[timeout].state = "fired"))
    /\ [][(options.signal = "live" /\ options'.signal = "aborted") =>
            (fetches' = fetches /\ pc' = pc /\ aborted' = aborted)]_vars

C17_Witness ==
    /\ options.signal = "aborted"
    /\ pc = "awaitFetch"
    /\ Len(fetches) = 1
    /\ fetches[1].state = "pending"
    /\ cur \notin aborted

\* A call, given as one value, is consistent with having run alone against
\* the responses its own fetches received.
RanAlone(c) ==
    LET fs == c.fetches
        n == Len(fs)
    IN  /\ \A i \in 1..n :
              /\ fs[i].signal = [owner |-> "client", id |-> c.cur]
              /\ fs[i].err = <<AbortErr>> =>
                    (c.cur \in aborted /\ timers[c.timeout].state = "fired")
        /\ \A i \in 1..(n - 1) : Failed(fs[i])
        /\ c.attempt \in {n - 1, n}
        /\ n <= 3
        /\ c.timeout # 0 => timers[c.timeout].call = c.cur
        /\ c.pc = "returned" =>
              (c.attempt = n - 1 /\ c.retval = JsonParse(fs[n].body)
                 /\ fs[n].json = "fulfilled")
        /\ (c.pc = "thrown" /\ c.endpoint # "") =>
              /\ n = 3 /\ c.attempt = 3 /\ Failed(fs[3])
              /\ c.lastError = <<FailureOf(fs[3])>>
              /\ c.thrown[1].message = FailureOf(fs[3]).name \o ": "
                                            \o FailureOf(fs[3]).message

\* C14: with two calls in progress, each call is at every moment consistent
\* with having run alone (own signal, own timer, own attempt count, outcome
\* decided by its own responses); a step other than a call or a turn of the
\* event loop changes one call only; and a timer that fires changes nothing
\* of the call that did not arm it.
C14_ConcurrentCallsIndependent ==
    /\ [](RanAlone(Focused) /\ (parked # <<>> => RanAlone(parked[1])))
    /\ [](parked # <<>> =>
            /\ parked[1].cur # cur
            /\ (parked[1].timeout # 0 /\ timeout # 0) =>
                    parked[1].timeout # timeout)
    /\ [][(parked # <<>> /\ parked' # <<>> /\ cur' = cur) =>
            (parked' = parked \/ Focused' = Focused)]_vars
    /\ [][\A t \in DOMAIN timers :
            (timers[t].state = "armed" /\ timers'[t].state = "fired") =>
                /\ timers[t].call # cur => Focused' = Focused
                /\ (parked # <<>> /\ timers[t].call # parked[1].cur) =>
                        parked' = parked]_vars

C14_Witness ==
    /\ parked # <<>>
    /\ parked[1].pc = "awaitFetch"
    /\ parked[1].fetches[1].state = "pending"
    /\ parked[1].attempt = 0
    /\ cur \in aborted
    /\ lastError = <<AbortErr>>
    /\ pc = "thrown"

\* The call in focus was made by the effect of the mount of the component
\* that is mounted, no later render has run the effect again, and the
\* fetchData of that effect still awaits it.
FirstRequestAwaited ==
    mounted /\ effects = 1 /\ cur \in live /\ cur \in awaiting

\* C18: when the request made at the mount of the hook has succeeded, the
\* hook comes to hold the value that request returned as data while error
\* is null; and as long as no other render has run the effect, data is set
\* only with error null.
C18_SuccessExposed ==
    /\ (FirstRequestAwaited /\ pc = "returned")
            ~> (data = retval /\ data # NullState /\ error = NullState)
    /\ []((mounted /\ effects = 1 /\ data # NullState) => error = NullState)

C18_Witness ==
    /\ mounted /\ effects = 1 /\ cur \in live /\ cur \notin awaiting
    /\ pc = "returned"
    /\ Succeeded(LastFetch)
    /\ data = <<JsonParse(LastFetch.body)[1]>>
    /\ error = NullState

\* C19: when the request made at the mount of the hook has failed on each
\* of its three attempts, the hook comes to hold an error while data is
\* null; and as long as no other render has run the effect, error is set
\* only with data null.
C19_FailureExposed ==
    /\ (FirstRequestAwaited /\ pc = "thrown" /\ Len(fetches) = MaxAttempts
            /\ \A i \in 1..MaxAttempts : Failed(fetches[i]))
            ~> (error = thrown /\ error # NullState /\ data = NullState)
    /\ []((mounted /\ effects = 1 /\ error # NullState) => data = NullState)

C19_Witness ==
    /\ mounted /\ effects = 1 /\ cur \in live /\ cur \notin awaiting
    /\ pc = "thrown"
    /\ Len(fetches) = MaxAttempts
    /\ \A i \in 1..MaxAttempts : Failed(fetches[i])
    /\ error = thrown
    /\ error[1].class = "ApiError"
    /\ data = NullState

\* The header holds the directive default-src 'self'.
HasDefaultSrcSelf(csp) ==
    /\ csp # <<>>
    /\ \E i \in DOMAIN csp[1] :
          csp[1][i].name = "default-src" /\ csp[1][i].values = <<"'self'">>

\* The app of the server module, in either of its texts.
ServerApps == {IndexApp, SecuredApp}

\* C20: every answer of the server app to a GET /health request without a
\* body has a body whose status is 'ok' and a Content-Security-Policy
\* header with default-src 'self', and the app is exported.
C20_HealthOkWithCsp ==
    (/\ request # <<>>
     /\ request[1].app \in ServerApps
     /\ request[1].method = "GET"
     /\ request[1].path = "/health"
     /\ request[1].body = "none"
     /\ response.sent) =>
        /\ "app" \in request[1].app.exports
        /\ response.body = "{\"status\":\"ok\"}"
        /\ HasDefaultSrcSelf(response.headers.csp)

\* C21: whenever a fetch of the call is in flight, the timer of the call
\* is armed or the signal of the call is aborted; in the second and third
\* attempts as in the first.
C21_EveryAttemptBounded ==
    \A i \in DOMAIN fetches :
        fetches[i].state = "pending" =>
            \/ timeout \in DOMAIN timers /\ timers[timeout].state = "armed"
            \/ cur \in aborted

\* C22: with timers that fire unless cleared, a call in progress comes to
\* return or to throw, whether or not its fetches are ever answered.
C22_CallCompletes == (pc \in {"awaitFetch", "awaitJson"}) ~> (pc \in Done)

\* C23: a failed first or second attempt, once the call has resumed from
\* it, is followed by the next fetch, whatever failed (transport, abort,
\* status, body); the step that resumes from a failed attempt records that
\* failure as the last error and, below three attempts, issues the next
\* fetch; and a call that passed validation throws only with three
\* attempts counted.
C23_FailureThenNextAttempt ==
    /\ [](\A n \in 1..2 :
            (n <= Len(fetches) /\ Failed(fetches[n]) /\ attempt >= n) =>
                Len(fetches) >= n + 1)
    /\ []((pc = "thrown" /\ fetches # <<>>) => attempt = 3)
    /\ [][(cur' = cur /\ attempt' = attempt + 1) =>
            /\ Failed(LastFetch)
            /\ lastError' = <<FailureOf(LastFetch)>>
            /\ attempt + 1 < 3 =>
                    (pc' = "awaitFetch" /\ Len(fetches') = Len(fetches) + 1)]_vars

C23_Witness ==
    /\ Len(fetches) = 3
    /\ attempt = 2
    /\ fetches[1].err = <<TransportErr>>
    /\ fetches[2].err = <<AbortErr>>
    /\ lastError = <<AbortErr>>
    /\ pc = "awaitFetch"

\* C24: all fetches of a call request the same target, whatever happens
\* to the configured base address while the call is in progress.
C24_BaseReadOnce ==
    \A i, j \in DOMAIN fetches : fetches[i].url = fetches[j].url

\* The targets a missing base address and a base address without a scheme
\* give for the path '/path'.
MalformedTargets == {"undefined/path", "local/path"}

\* Every fetch the call has issued had a target that is no URL.
AllTargetsMalformed ==
    fetches # <<>> /\ \A i \in DOMAIN fetches : fetches[i].url \in MalformedTargets

C26_RetriesImmediate ==
    /\ [](pc \in {"awaitFetch", "awaitJson"} => Len(fetches) = attempt + 1)
    /\ [][(pc \in {"awaitFetch", "awaitJson"} /\ Failed(LastFetch)) =>
            /\ cur' = cur
            /\ attempt' = attempt + 1
            /\ \A t \in DOMAIN timers :
                    timers[t].state = "armed" => timers'[t].state # "fired"
            /\ IF attempt + 1 < 3
                 THEN pc' = "awaitFetch" /\ Len(fetches') = Len(fetches) + 1
                 ELSE pc' = "thrown"]_vars

C26_Witness ==
    /\ Len(fetches) = 2
    /\ attempt = 1
    /\ fetches[1].err = <<TransportErr>>
    /\ fetches[2].state = "pending"
    /\ timers[timeout].state = "armed"

\* C27: the step that resumes a call from a body read that failed to parse
\* counts the attempt and makes the parse error the last error; below three
\* attempts it issues the next fetch, and at the third it throws the
\* ApiError whose message is the description of the parse error.  A
\* response with a success status whose body is no JSON never makes the
\* call return.
C27_ParseFailureRetried ==
    /\ [][(pc = "awaitJson" /\ LastFetch.json = "rejected") =>
            /\ LastFetch.status \in 200..299
            /\ LastFetch.err = <<SyntaxErr>>
            /\ attempt' = attempt + 1
            /\ lastError' = <<SyntaxErr>>
            /\ IF attempt + 1 < 3
                 THEN /\ pc' = "awaitFetch"
                      /\ Len(fetches') = Len(fetches) + 1
                      /\ thrown' = <<>>
                 ELSE /\ pc' = "thrown"
                      /\ thrown' = <<ApiErr("SyntaxError: " \o SyntaxErr.message)>>]_vars
    /\ []((pc = "returned") => JsonParse(LastFetch.body) # <<>>)

C27_Witness ==
    /\ pc = "thrown"
    /\ Len(fetches) = 3
    /\ \A i \in 1..3 : fetches[i].status = 200 /\ fetches[i].body = "<html>"
    /\ lastError = <<SyntaxErr>>
    /\ thrown[1].class = "ApiError"
    /\ thrown[1].message = "SyntaxError: Unexpected token < in JSON"

\* The call in focus was made for an earlier endpoint value, or by a
\* component that has unmounted since.
StaleRequest == ~mounted \/ cur < NextCall - 1 \/ endpoint # hookProp

\* C28: a step in which fetchData resumes from a stale request leaves data
\* and error as they are; and data or error change only when the component
\* mounts or when fetchData resumes from the request of the last effect of
\* the mounted component.
C28_StaleResultDropped ==
    /\ [][(DeliveryReady /\ StaleRequest) =>
                (data' = data /\ error' = error)]_vars
    /\ [][(data' # data \/ error' # error) =>
            \/ ~mounted /\ mounted'
            \/ /\ mounted /\ mounted'
               /\ cur = NextCall - 1
               /\ endpoint = hookProp
               /\ pc \in Done
               /\ cur \in awaiting /\ cur \notin awaiting']_vars

C28_Witness ==
    /\ mounted
    /\ effects = 2
    /\ cur = 1
    /\ endpoint # hookProp
    /\ pc = "returned"
    /\ cur \notin awaiting
    /\ data = NullState
    /\ error = NullState

\* C29: data and error of the hook are never both set.
C29_DataXorError == data = NullState \/ error = NullState

\* C30: the step in which a call is rejected at validation changes no
\* timer and no controller and issues no fetch; and such a call owns no
\* timer, has no aborted controller and no continuation waiting to run.
C30_RejectionHasNoEffects ==
    /\ [][(cur' # cur /\ endpoint' = "") =>
            /\ pc' = "thrown"
            /\ timers' = timers
            /\ aborted' = aborted
            /\ fetches' = <<>>
            /\ timeout' = 0]_vars
    /\ []((cur > 0 /\ endpoint = "") =>
            /\ TimersOf(cur) = {}
            /\ cur \notin aborted
            /\ ~MicrotaskReady)

C30_Witness ==
    /\ cur = 2
    /\ endpoint = ""
    /\ pc = "thrown"
    /\ thrown = <<ZodErr>>
    /\ Len(timers) = 1
    /\ timers[1].call = 1
    /\ timers[1].state = "armed"

====
